---- MODULE Spec2Model ----
(***************************************************************************)
(* Model of src/app.py: the Baserow webhook receiver handle_new_record,   *)
(* the Google Drive folder it provisions and the Baserow row it patches,  *)
(* and the PDF view generate_sponsor_pdf.                                  *)
(*                                                                         *)
(* A webhook delivery is one run of handle_new_record.  The handler is a  *)
(* straight line of code with three blocking external calls; a run is     *)
(* modelled as one step per external call, so that deliveries handled by  *)
(* different request threads interleave at exactly those calls.           *)
(*                                                                         *)
(* A Python value that may be missing (dict.get returning None) is a      *)
(* sequence of length 0 (None) or 1 (the value).                          *)
(***************************************************************************)
EXTENDS Integers, Sequences, FiniteSets, TLC

\* ---------------------------------------------------------------- bounds
\* webhook deliveries handled, concurrently or one after the other
MaxRuns == 2
\* longest "items" array of a payload
MaxItems == 2

\* ----------------------------------------------------------- configuration
BASEROW_API_URL == "https://api.baserow.io/api/database/rows/table/"
TABLE_ID == 7
API_ENDPOINT == "https://localhost:8000"
GOOGLE_DRIVE_PARENT_FOLDER_ID == "parent"

None == <<>>
Some(v) == <<v>>

Runs == 1..MaxRuns

\* ------------------------------------------------------------ the inputs
\* One element of payload["items"]: a row as Baserow sends it.  Row 0 is the
\* webhook test row; row 2 carries no "Full Name".
Items ==
    { [id |-> Some(0), name |-> Some("Ada")],
      [id |-> Some(1), name |-> Some("Ada")],
      [id |-> Some(2), name |-> None] }

RECURSIVE SeqsUpTo(_, _)
SeqsUpTo(S, n) ==
    IF n = 0 THEN {<<>>}
    ELSE LET shorter == SeqsUpTo(S, n - 1)
         IN  shorter \cup {Append(s, x) : s \in {t \in shorter : Len(t) = n - 1}, x \in S}

ItemSeqs == SeqsUpTo(Items, MaxItems)

\* A JSON object body: every key may be missing.
ObjectPayloads ==
    [kind : {"object"}, event_type : {Some("rows.created")},
     table_id : {Some(7), Some(8)},
     items : {None} \cup {Some(s) : s \in ItemSeqs}]
    \cup
    [kind : {"object"}, event_type : {None, Some("rows.updated")},
     table_id : {Some(7)},
     items : {Some(<<>>), Some(<<[id |-> Some(1), name |-> Some("Ada")]>>)}]

\* A body request.get_json() rejects (BadRequest), and a JSON body that is
\* no object (payload.get raises AttributeError).
BadPayloads ==
    [kind : {"unparsable", "not_object"}, event_type : {None}, table_id : {None},
     items : {None}]

Payloads == ObjectPayloads \cup BadPayloads

\* ------------------------------------------------------- Python formatting
Digit == <<"0", "1", "2", "3", "4", "5", "6", "7", "8", "9">>

\* str() of a non-negative int below 10, as an f-string renders it.
DecStr(n) == Digit[n + 1]

\* An f-string field: None renders as "None".
PyStr(opt) == IF opt = None THEN "None" ELSE DecStr(opt[1])

\* dict.get(key, default)
Get(opt, default) == IF opt = None THEN default ELSE opt[1]

\* ------------------------------------------------------------- the state
VARIABLES
    drive_service,  \* "ready", or "undefined" when the module-level setup failed
    pc,             \* pc[r]: the call run r is about to make, "idle" or "done"
    frame,          \* frame[r]: the live local variables of run r
    response,       \* response[r]: the HTTP response of run r, None until it returns
    calls,          \* calls[r]: the external calls run r has issued, in order
    log,            \* log[r]: the records run r has logged, in order
    folders,        \* the folders of the Drive parent folder, in creation order
    rows,           \* the Baserow rows, by <<table id, row id>>
    render          \* the last GET /student-details/<id> and its answer, or None

vars == <<drive_service, pc, frame, response, calls, log, folders, rows, render>>

\* The rows that exist in Baserow.
RowKeys == {7, 8} \X {1, 2}
Fields == {"Full Name", "Google Drive Link", "Profile"}

NoFrame ==
    [row_id |-> None, student_name |-> "", table_id |-> None, folder_name |-> <<>>,
     folder_id |-> None, folder_link |-> None]

Init ==
    /\ drive_service \in {"ready", "undefined"}
    /\ pc = [r \in Runs |-> "idle"]
    /\ frame = [r \in Runs |-> NoFrame]
    /\ response = [r \in Runs |-> None]
    /\ calls = [r \in Runs |-> <<>>]
    /\ log = [r \in Runs |-> <<>>]
    /\ folders = <<>>
    /\ render = None
    /\ rows = [k \in RowKeys |->
                 [f \in Fields |-> IF f = "Full Name" THEN Some("Ada") ELSE None]]

\* ------------------------------------------------------------ responses
\* A dict returned from a Flask view is sent as JSON with status 200.
Respond(body) == [code |-> 200, body |-> body]

Ignored(reason) ==
    [status |-> "ignored", reason |-> Some(reason), folder_name |-> <<>>,
     link_added |-> None]

Errored(reason) ==
    [status |-> "error", reason |-> Some(reason), folder_name |-> <<>>,
     link_added |-> None]

Succeeded(folder_name) ==
    [status |-> "success", reason |-> None, folder_name |-> folder_name,
     link_added |-> Some(TRUE)]

\* A log record: the fixed text of the f-string and the texts of its fields,
\* each field a sequence of string pieces as str() renders it.
Info(msg, args) == [level |-> "INFO", msg |-> msg, args |-> args]
Warning(msg, args) == [level |-> "WARNING", msg |-> msg, args |-> args]
Error(msg, args) == [level |-> "ERROR", msg |-> msg, args |-> args]

\* What a stretch of the handler ends in: the frame it leaves, the records it
\* logged, and either the response it returned or the call it blocks in next.

\* Mutant of Catch: the exception leaves the handler and Flask answers 500.
Catch_Escapes(f, lines, e) ==
    [frame |-> f,
     lines |-> lines,
     response |-> Some([code |-> 500, body |-> Errored("Internal Server Error")]),
     next |-> "done"]

\* Mutant of Catch: the answer hides the cause, which is only logged.
Catch_HidesCause(f, lines, e) ==
    [frame |-> f,
     lines |-> lines \o <<Error("CRITICAL ERROR in webhook: ", <<<<e>>>>)>>,
     response |-> Some(Respond(Errored("Internal error"))),
     next |-> "done"]

\* except Exception as e: log it and answer {"status": "error", "reason": str(e)}.
\* lines are the records logged before the exception was raised.
Catch(f, lines, e) ==
    [frame |-> f,
     lines |-> lines \o <<Error("CRITICAL ERROR in webhook: ", <<<<e>>>>)>>,
     response |-> Some(Respond(Errored(e))),
     next |-> "done"]

\* return <dict> from inside the try block.
Return(f, lines, body) ==
    [frame |-> f, lines |-> lines, response |-> Some(Respond(body)), next |-> "done"]

\* The handler goes on to the external call named next.
Proceed(f, lines, next) ==
    [frame |-> f, lines |-> lines, response |-> None, next |-> next]

\* Run r takes the outcome of its step.
Apply(r, out) ==
    /\ frame' = [frame EXCEPT ![r] = out.frame]
    /\ log' = [log EXCEPT ![r] = @ \o out.lines]
    /\ response' = [response EXCEPT ![r] = out.response]
    /\ pc' = [pc EXCEPT ![r] = out.next]

\* ------------------------------------------------- the event filter
\* Mutant of IsRowCreation: only the known other event is filtered out.
IsRowCreation_Blacklist(payload) == payload.event_type # Some("rows.updated")

\* if payload.get("event_type") != "rows.created": ignore
IsRowCreation(payload) == payload.event_type = Some("rows.created")

\* items = payload.get("items", []); if not items: ...
NoItems(payload) == Get(payload.items, <<>>) = <<>>

\* Mutant of NoItemsBody: the empty delivery is reported as ignored.
NoItemsBody_Ignored == Ignored("no items")

NoItemsBody == Errored("No items in payload")

\* Mutant of IsWebhookTest: only a missing id is taken for the test payload.
IsWebhookTest_MissingId(row_id) == row_id = None

\* if row_id == 0: the webhook test payload
IsWebhookTest(row_id) == row_id = Some(0)

\* Mutant of FolderName: the name comes first.
FolderName_NameFirst(row_id, student_name) == <<student_name, " - ", PyStr(row_id)>>

\* folder_name = f"{row_id} - {student_name}"
FolderName(row_id, student_name) == <<PyStr(row_id), " - ", student_name>>

folder_metadata(folder_name) ==
    [name |-> folder_name, mimeType |-> "application/vnd.google-apps.folder",
     parents |-> <<GOOGLE_DRIVE_PARENT_FOLDER_ID>>]

\* Mutant of Extract: the last item of the array is the triggering record.
Extract_LastItem(payload) ==
    LET items == Get(payload.items, <<>>)
        student_data == items[Len(items)]
        row_id == student_data.id
        student_name == Get(student_data.name, "Unknown")
    IN  [row_id |-> row_id, student_name |-> student_name,
         table_id |-> payload.table_id,
         folder_name |-> FolderName(row_id, student_name),
         folder_id |-> None, folder_link |-> None]

\* The local variables set by lines 128-145.
Extract(payload) ==
    LET student_data == Get(payload.items, <<>>)[1]
        row_id == student_data.id
        student_name == Get(student_data.name, "Unknown")
    IN  [row_id |-> row_id, student_name |-> student_name,
         table_id |-> payload.table_id,
         folder_name |-> FolderName(row_id, student_name),
         folder_id |-> None, folder_link |-> None]

Triggered == Info("--- Incoming Webhook Triggered ---", <<>>)

\* Mutant of Filter: an empty items array is read as one empty row
\* (student_data = items[0] if items else {}) and the run goes on.
Filter_EmptyRow(payload) ==
    IF payload.kind = "unparsable"
      THEN Catch(NoFrame, <<Triggered>>, "400 Bad Request")
    ELSE IF payload.kind = "not_object"
      THEN Catch(NoFrame, <<Triggered>>, "object has no attribute 'get'")
    ELSE IF ~IsRowCreation(payload)
      THEN Return(NoFrame,
                  <<Triggered,
                    Info("Ignored webhook. Event type was: ",
                         <<<<Get(payload.event_type, "None")>>>>)>>,
                  Ignored("Not a row creation event"))
    ELSE LET f == IF NoItems(payload)
                    THEN [row_id |-> None, student_name |-> "Unknown",
                          table_id |-> payload.table_id,
                          folder_name |-> FolderName(None, "Unknown"),
                          folder_id |-> None, folder_link |-> None]
                    ELSE Extract(payload)
         IN  IF IsWebhookTest(f.row_id)
               THEN Return(NoFrame,
                           <<Triggered,
                             Info("Webhook test payload (ID 0) received and ignored.",
                                  <<>>)>>,
                           Ignored("Row ID invalid/Webhook test successful, your pick."))
               ELSE Proceed(f,
                            <<Triggered,
                              Info("Processing new record: ",
                            <<<<f.student_name>>, <<PyStr(f.row_id)>>>>),
                              Info("Attempting to create Google Drive folder for ",
                                   <<<<f.student_name>>>>)>>,
                            "files.create")

\* handle_new_record from its entry to its first external call.
Filter(payload) ==
    IF payload.kind = "unparsable"
      THEN Catch(NoFrame, <<Triggered>>, "400 Bad Request")
    ELSE IF payload.kind = "not_object"
      THEN Catch(NoFrame, <<Triggered>>, "object has no attribute 'get'")
    ELSE IF ~IsRowCreation(payload)
      THEN Return(NoFrame,
                  <<Triggered,
                    Info("Ignored webhook. Event type was: ",
                         <<<<Get(payload.event_type, "None")>>>>)>>,
                  Ignored("Not a row creation event"))
    ELSE IF NoItems(payload)
      THEN Return(NoFrame,
                  <<Triggered, Warning("Webhook payload contained no items.", <<>>)>>,
                  NoItemsBody)
    ELSE IF IsWebhookTest(Extract(payload).row_id)
      THEN Return(NoFrame,
                  <<Triggered,
                    Info("Webhook test payload (ID 0) received and ignored.", <<>>)>>,
                  Ignored("Row ID invalid/Webhook test successful, your pick."))
    ELSE LET f == Extract(payload)
         IN  Proceed(f,
                     <<Triggered,
                       Info("Processing new record: ",
                            <<<<f.student_name>>, <<PyStr(f.row_id)>>>>),
                       Info("Attempting to create Google Drive folder for ",
                            <<<<f.student_name>>>>)>>,
                     "files.create")

\* A delivery of payload is taken by run r.  Runs are numbered in order of
\* arrival.
Deliver(r, payload) ==
    /\ pc[r] = "idle"
    /\ \A q \in Runs : q < r => pc[q] # "idle"
    /\ Apply(r, Filter(payload))
    /\ UNCHANGED <<drive_service, render, calls, folders, rows>>

\* ------------------------------------------------------- Google Drive
\* What Drive stores for files().create(body, fields="id, webViewLink"): the
\* n-th folder it creates gets an id and a link of its own.
WebViewLink(id) == <<"https://drive.google.com/drive/folders/", id>>

NewFolder(body) ==
    LET id == DecStr(Len(folders) + 1)
    IN  [id |-> id, name |-> body.name, mimeType |-> body.mimeType,
         parents |-> body.parents, webViewLink |-> WebViewLink(id),
         permissions |-> <<>>]

\* Mutant of FolderCreated: the line is logged without the link.
FolderCreated_NoLink(folder_link) == Info("Folder created successfully. Link: ", <<>>)

\* logger.info(f"Folder created successfully. Link: {folder_link}")
FolderCreated(folder_link) ==
    Info("Folder created successfully. Link: ", <<folder_link>>)

\* permission_metadata = {"type": "anyone", "role": "reader"}
permission_metadata == [type |-> "anyone", role |-> "reader"]

\* Run r issues an external call; result is what the service answered.
Call(r, api, args, ok, result) ==
    calls' = [calls EXCEPT ![r] =
                Append(@, [api |-> api, args |-> args, ok |-> ok, result |-> result])]

\* Mutant of AfterFolder: the grant is left out and the row patched at once.
AfterFolder_SkipsGrant == "requests.patch"

\* The call that follows a created folder, and the one after the grant.
AfterFolder == "permissions.create"

\* Mutant of AfterPermission: a granted permission is granted again.
AfterPermission_GrantsAgain == "permissions.create"

AfterPermission == "requests.patch"

\* Mutant of CreateFolder: a rejected creation is swallowed and the run goes on.
CreateFolder_Swallows(r) ==
    /\ pc[r] = "files.create"
    /\ UNCHANGED <<drive_service, render, rows>>
    /\ LET body == folder_metadata(frame[r].folder_name)
       IN  IF drive_service = "undefined"
             THEN /\ Apply(r, Catch(frame[r], <<>>, "name 'drive_service' is not defined"))
                  /\ UNCHANGED <<calls, folders>>
             ELSE \/ LET folder == NewFolder(body)
                         folder_id == Some(folder.id)
                         folder_link == Some(folder.webViewLink)
                     IN  /\ Call(r, "files.create", body, TRUE,
                                 [id |-> folder_id, webViewLink |-> folder_link])
                         /\ folders' = Append(folders, folder)
                         /\ Apply(r, Proceed(
                                [frame[r] EXCEPT !.folder_id = folder_id,
                                                 !.folder_link = folder_link],
                                <<FolderCreated(folder.webViewLink),
                                  Info("Updating folder permissions to public read-only...",
                                       <<>>)>>,
                                AfterFolder))
                  \/ /\ Call(r, "files.create", body, FALSE, None)
                     /\ Apply(r, Proceed(frame[r], <<>>, AfterFolder))
                     /\ UNCHANGED folders

\* Mutant of CreateFolder: a folder of the same name is reused, not created anew.
CreateFolder_Reuses(r) ==
    /\ pc[r] = "files.create"
    /\ UNCHANGED <<drive_service, render, rows>>
    /\ LET body == folder_metadata(frame[r].folder_name)
           same == {i \in 1..Len(folders) : folders[i].name = body.name}
       IN  IF drive_service = "undefined"
             THEN /\ Apply(r, Catch(frame[r], <<>>, "name 'drive_service' is not defined"))
                  /\ UNCHANGED <<calls, folders>>
             ELSE IF same # {}
             THEN LET old == folders[CHOOSE i \in same : TRUE]
                  IN  /\ Apply(r, Proceed(
                             [frame[r] EXCEPT !.folder_id = Some(old.id),
                                              !.folder_link = Some(old.webViewLink)],
                             <<>>, AfterFolder))
                      /\ UNCHANGED <<calls, folders>>
             ELSE \/ LET folder == NewFolder(body)
                         folder_id == Some(folder.id)
                         folder_link == Some(folder.webViewLink)
                     IN  /\ Call(r, "files.create", body, TRUE,
                                 [id |-> folder_id, webViewLink |-> folder_link])
                         /\ folders' = Append(folders, folder)
                         /\ Apply(r, Proceed(
                                [frame[r] EXCEPT !.folder_id = folder_id,
                                                 !.folder_link = folder_link],
                                <<FolderCreated(folder.webViewLink),
                                  Info("Updating folder permissions to public read-only...",
                                       <<>>)>>,
                                AfterFolder))
                  \/ /\ Call(r, "files.create", body, FALSE, None)
                     /\ Apply(r, Catch(frame[r], <<>>, "HttpError files.create"))
                     /\ UNCHANGED folders

\* drive_service.files().create(...).execute() and the lines up to the next call.
CreateFolder(r) ==
    /\ pc[r] = "files.create"
    /\ UNCHANGED <<drive_service, render, rows>>
    /\ LET body == folder_metadata(frame[r].folder_name)
       IN  IF drive_service = "undefined"
             THEN \* NameError: the client was never built, nothing is sent
                  /\ Apply(r, Catch(frame[r], <<>>, "name 'drive_service' is not defined"))
                  /\ UNCHANGED <<calls, folders>>
             ELSE \/ LET folder == NewFolder(body)
                         folder_id == Some(folder.id)
                         folder_link == Some(folder.webViewLink)
                     IN  /\ Call(r, "files.create", body, TRUE,
                                 [id |-> folder_id, webViewLink |-> folder_link])
                         /\ folders' = Append(folders, folder)
                         /\ Apply(r, Proceed(
                                [frame[r] EXCEPT !.folder_id = folder_id,
                                                 !.folder_link = folder_link],
                                <<FolderCreated(folder.webViewLink),
                                  Info("Updating folder permissions to public read-only...",
                                       <<>>)>>,
                                AfterFolder))
                  \/ /\ Call(r, "files.create", body, FALSE, None)
                     /\ Apply(r, Catch(frame[r], <<>>, "HttpError files.create"))
                     /\ UNCHANGED folders

\* The positions in folders of the folder with this id (none if there is none).
FolderIndex(folder_id) ==
    {i \in 1..Len(folders) : Some(folders[i].id) = folder_id}

\* Mutant of GrantPermission: a failed grant deletes the folder again.
GrantPermission_RollsBack(r) ==
    /\ pc[r] = "permissions.create"
    /\ UNCHANGED <<drive_service, render, rows>>
    /\ LET args == [fileId |-> frame[r].folder_id, body |-> permission_metadata]
       IN  \/ /\ FolderIndex(frame[r].folder_id) # {}
              /\ Call(r, "permissions.create", args, TRUE, None)
              /\ folders' = [i \in 1..Len(folders) |->
                               IF i \in FolderIndex(frame[r].folder_id)
                                 THEN [folders[i] EXCEPT
                                         !.permissions = Append(@, permission_metadata)]
                                 ELSE folders[i]]
              /\ Apply(r, Proceed(frame[r],
                                  <<Info("Permissions updated successfully.", <<>>),
                                    Info("Attempting to update Baserow table, row ",
                                         <<<<PyStr(frame[r].table_id)>>,
                                           <<PyStr(frame[r].row_id)>>>>)>>,
                                  AfterPermission))
           \/ /\ Call(r, "permissions.create", args, FALSE, None)
              /\ Apply(r, Catch(frame[r], <<>>, "HttpError permissions.create"))
              /\ folders' = SelectSeq(folders, LAMBDA f : Some(f.id) # frame[r].folder_id)

\* Mutant of GrantPermission: the grant goes to the newest folder of the parent.
GrantPermission_NewestFolder(r) ==
    /\ pc[r] = "permissions.create"
    /\ UNCHANGED <<drive_service, render, rows>>
    /\ LET newest == Some(folders[Len(folders)].id)
           args == [fileId |-> newest, body |-> permission_metadata]
       IN  \/ /\ FolderIndex(newest) # {}
              /\ Call(r, "permissions.create", args, TRUE, None)
              /\ folders' = [i \in 1..Len(folders) |->
                               IF i \in FolderIndex(newest)
                                 THEN [folders[i] EXCEPT
                                         !.permissions = Append(@, permission_metadata)]
                                 ELSE folders[i]]
              /\ Apply(r, Proceed(frame[r],
                                  <<Info("Permissions updated successfully.", <<>>),
                                    Info("Attempting to update Baserow table, row ",
                                         <<<<PyStr(frame[r].table_id)>>,
                                           <<PyStr(frame[r].row_id)>>>>)>>,
                                  AfterPermission))
           \/ /\ Call(r, "permissions.create", args, FALSE, None)
              /\ Apply(r, Catch(frame[r], <<>>, "HttpError permissions.create"))
              /\ UNCHANGED folders

\* drive_service.permissions().create(fileId=folder_id, ...).execute()
GrantPermission(r) ==
    /\ pc[r] = "permissions.create"
    /\ UNCHANGED <<drive_service, render, rows>>
    /\ LET args == [fileId |-> frame[r].folder_id, body |-> permission_metadata]
       IN  \/ /\ FolderIndex(frame[r].folder_id) # {}
              /\ Call(r, "permissions.create", args, TRUE, None)
              /\ folders' = [i \in 1..Len(folders) |->
                               IF i \in FolderIndex(frame[r].folder_id)
                                 THEN [folders[i] EXCEPT
                                         !.permissions = Append(@, permission_metadata)]
                                 ELSE folders[i]]
              /\ Apply(r, Proceed(frame[r],
                                  <<Info("Permissions updated successfully.", <<>>),
                                    Info("Attempting to update Baserow table, row ",
                                         <<<<PyStr(frame[r].table_id)>>,
                                           <<PyStr(frame[r].row_id)>>>>)>>,
                                  AfterPermission))
           \/ /\ Call(r, "permissions.create", args, FALSE, None)
              /\ Apply(r, Catch(frame[r], <<>>, "HttpError permissions.create"))
              /\ UNCHANGED folders

\* ------------------------------------------------------------- Baserow
\* profile_link = f"{API_ENDPOINT}/student-details/{row_id}"
ProfileLink(row_id) == <<API_ENDPOINT, "/student-details/", PyStr(row_id)>>

\* Mutant of update_url: the configured table is patched, whatever the payload names.
update_url_ConfiguredTable(table_id, row_id) ==
    <<BASEROW_API_URL, DecStr(TABLE_ID), "/", PyStr(row_id), "/?user_field_names=true">>

\* update_url = f"{BASEROW_API_URL}{table_id}/{row_id}/?user_field_names=true"
update_url(table_id, row_id) ==
    <<BASEROW_API_URL, PyStr(table_id), "/", PyStr(row_id), "/?user_field_names=true">>

\* Mutant of update_data: the two links are written to each other's field.
update_data_Swapped(folder_link, profile_link) ==
    ("Google Drive Link" :> Some(profile_link)) @@ ("Profile" :> folder_link)

\* update_data = {"Google Drive Link": folder_link, "Profile": profile_link}
update_data(folder_link, profile_link) ==
    ("Google Drive Link" :> folder_link) @@ ("Profile" :> Some(profile_link))

\* The rows a URL names: Baserow reads the table and row numbers back out of it.
Resolve(url) ==
    {k \in RowKeys : DecStr(k[1]) = url[2] /\ DecStr(k[2]) = url[4]}

\* PATCH overwrites the named fields of the row and leaves the others.
Patched(row, data) ==
    [f \in Fields |-> IF f \in DOMAIN data THEN data[f] ELSE row[f]]

\* Mutant of PatchRecord: raise_for_status() is left out, a refused patch is
\* reported as a success.
PatchRecord_NoRaise(r) ==
    /\ pc[r] = "requests.patch"
    /\ UNCHANGED <<drive_service, render, folders>>
    /\ LET url == update_url(frame[r].table_id, frame[r].row_id)
           data == update_data(frame[r].folder_link, ProfileLink(frame[r].row_id))
           args == [url |-> url, json |-> data]
       IN  \/ /\ Resolve(url) # {}
              /\ Call(r, "requests.patch", args, TRUE, None)
              /\ rows' = [k \in RowKeys |->
                            IF k \in Resolve(url) THEN Patched(rows[k], data) ELSE rows[k]]
              /\ Apply(r, Return(frame[r],
                                 <<Info("--- Successfully processed and updated student ",
                                        <<<<PyStr(frame[r].row_id)>>>>)>>,
                                 Succeeded(frame[r].folder_name)))
           \/ /\ Call(r, "requests.patch", args, FALSE, None)
              /\ Apply(r, Return(frame[r],
                                 <<Error("Baserow Update Failed! Status: ", <<>>),
                                   Info("--- Successfully processed and updated student ",
                                        <<<<PyStr(frame[r].row_id)>>>>)>>,
                                 Succeeded(frame[r].folder_name)))
              /\ UNCHANGED rows

\* requests.patch(update_url, headers, json=update_data) and the rest of the handler.
PatchRecord(r) ==
    /\ pc[r] = "requests.patch"
    /\ UNCHANGED <<drive_service, render, folders>>
    /\ LET url == update_url(frame[r].table_id, frame[r].row_id)
           data == update_data(frame[r].folder_link, ProfileLink(frame[r].row_id))
           args == [url |-> url, json |-> data]
       IN  \/ /\ Resolve(url) # {}
              /\ Call(r, "requests.patch", args, TRUE, None)
              /\ rows' = [k \in RowKeys |->
                            IF k \in Resolve(url) THEN Patched(rows[k], data) ELSE rows[k]]
              /\ Apply(r, Return(frame[r],
                                 <<Info("--- Successfully processed and updated student ",
                                        <<<<PyStr(frame[r].row_id)>>>>)>>,
                                 Succeeded(frame[r].folder_name)))
           \/ \* response.ok is false: 404 for a row that does not exist, or any
              \* other rejection by the store
              /\ Call(r, "requests.patch", args, FALSE, None)
              /\ Apply(r, Catch(frame[r],
                                <<Error("Baserow Update Failed! Status: ", <<>>)>>,
                                "HTTPError requests.patch"))
              /\ UNCHANGED rows

\* ------------------------------------------------- the PDF view
\* The ids GET /student-details/<int:student_id> is asked for; no table has a row 3.
StudentIds == {1, 2, 3}

\* f"{BASEROW_API_URL}{TABLE_ID}/{student_id}/?user_field_names=true"
fetch_url(student_id) ==
    <<BASEROW_API_URL, DecStr(TABLE_ID), "/", DecStr(student_id), "/?user_field_names=true">>

\* What Baserow may answer to the GET: 404 for a row it does not have, and for
\* a row it has the row, or a refusal.
FetchStatuses(url) == IF Resolve(url) = {} THEN {404} ELSE {200, 401, 500}

\* Mutant of FetchFailed: only a 404 of the store counts as not found.
FetchFailed_Only404(status_code) == status_code = 404

\* if response.status_code != 200: abort(404)
FetchFailed(status_code) == status_code # 200

\* filename="{student_data.get("Full Name", "Student")}_{student_id}.pdf"
Filename(student_data, student_id) ==
    <<Get(student_data["Full Name"], "Student"), "_", DecStr(student_id), ".pdf">>

\* The answer of the view and what it did on the way.
Rendered(student_id, url, status_code, student_data, template_read, compiled, code, mimetype, filename) ==
    Some([student_id |-> student_id, url |-> url, status_code |-> status_code,
          student_data |-> student_data, template_read |-> template_read,
          compiled |-> compiled, code |-> code, mimetype |-> mimetype,
          filename |-> filename])

\* generate_sponsor_pdf(student_id).  The view changes nothing outside; its one
\* read of the store is the GET.  Nothing is caught: an exception is Flask's 500.
Render(student_id) ==
    /\ UNCHANGED <<drive_service, pc, frame, response, calls, log, folders, rows>>
    /\ LET url == fetch_url(student_id)
       IN  \/ \* requests.get raises: the store was not reached
              render' = Rendered(student_id, url, None, None, FALSE, FALSE, 500,
                                 None, <<>>)
           \/ \E status_code \in FetchStatuses(url) :
                 IF FetchFailed(status_code)
                   THEN render' = Rendered(student_id, url, Some(status_code), None,
                                           FALSE, FALSE, 404, None, <<>>)
                   ELSE LET student_data == rows[CHOOSE k \in Resolve(url) : TRUE]
                        IN  \/ \* open(TEMPLATE_FILE) raises
                               render' = Rendered(student_id, url, Some(status_code),
                                                  Some(student_data), FALSE, FALSE,
                                                  500, None, <<>>)
                            \/ \* Template(...).render or write_pdf() raises
                               render' = Rendered(student_id, url, Some(status_code),
                                                  Some(student_data), TRUE, FALSE,
                                                  500, None, <<>>)
                            \/ render' = Rendered(student_id, url, Some(status_code),
                                                  Some(student_data), TRUE, TRUE,
                                                  200, Some("application/pdf"),
                                                  Filename(student_data, student_id))

\* ------------------------------------------------------ the specification
Next ==
    \E r \in Runs :
        \/ \E payload \in Payloads : Deliver(r, payload)
        \/ CreateFolder(r)
        \/ GrantPermission(r)
        \/ PatchRecord(r)

Spec == Init /\ [][Next]_vars

\* Deliveries of payloads whose items array has more than one element.
Several(payload) == payload.items # None /\ Len(payload.items[1]) > 1
SeveralPayloads == {payload \in ObjectPayloads : Several(payload)}

NextSeveral ==
    \E r \in Runs :
        \/ \E payload \in SeveralPayloads : Deliver(r, payload)
        \/ CreateFolder(r)
        \/ GrantPermission(r)
        \/ PatchRecord(r)

SpecSeveral == Init /\ [][NextSeveral]_vars

\* One delivery, and any number of GET /student-details/<id> around it.
NextRender ==
    \/ \E payload \in Payloads : Deliver(1, payload)
    \/ CreateFolder(1)
    \/ GrantPermission(1)
    \/ PatchRecord(1)
    \/ \E student_id \in StudentIds : Render(student_id)

SpecRender == Init /\ [][NextRender]_vars

\* ------------------------------------------------------------ the claims
Status(r) == response[r][1].body.status
Reason(r) == response[r][1].body.reason

Logged(r, msg) == \E i \in 1..Len(log[r]) : log[r][i].msg = msg

\* A step of the handler that reaches no external service.
NoExternalEffect == calls' = calls /\ folders' = folders /\ rows' = rows

\* Run r takes a delivery in this step.
Takes(r) == pc[r] = "idle" /\ pc'[r] # "idle"

\* The first element of the items array of an object payload that has one.
HasFirstItem(p) == p.items # None /\ Len(p.items[1]) > 0
FirstItem(p) == p.items[1][1]

\* C1: an object payload whose event_type is not "rows.created", or is missing,
\* is answered {"status": "ignored", "reason": "Not a row creation event"}; the
\* run ends there and no folder is created, no permission granted and no row
\* patched.
C1_OtherEventsIgnored ==
    [][\A r \in Runs, p \in ObjectPayloads :
          (Takes(r) /\ p.event_type # Some("rows.created") /\ Deliver(r, p))
            => /\ pc'[r] = "done"
               /\ response'[r] # None
               /\ response'[r][1].body.status = "ignored"
               /\ response'[r][1].body.reason = Some("Not a row creation event")
               /\ calls'[r] = <<>>
               /\ NoExternalEffect]_vars

C1_Witness ==
    \E r \in Runs :
        /\ pc[r] = "done"
        /\ Status(r) = "ignored"
        /\ Reason(r) = Some("Not a row creation event")
        /\ calls[r] = <<>>
        /\ \E i \in 1..Len(log[r]) :
              /\ log[r][i].msg = "Ignored webhook. Event type was: "
              /\ log[r][i].args = <<Some("rows.updated")>>

\* C2: a "rows.created" payload whose first item has id 0 is answered
\* {"status": "ignored", "reason": "Row ID invalid/Webhook test successful,
\* your pick."}; the run ends there without any external call.
C2_TestRowIgnored ==
    [][\A r \in Runs, p \in ObjectPayloads :
          (/\ Takes(r)
           /\ p.event_type = Some("rows.created")
           /\ HasFirstItem(p)
           /\ FirstItem(p).id = Some(0)
           /\ Deliver(r, p))
            => /\ pc'[r] = "done"
               /\ response'[r] # None
               /\ response'[r][1].body.status = "ignored"
               /\ response'[r][1].body.reason =
                      Some("Row ID invalid/Webhook test successful, your pick.")
               /\ calls'[r] = <<>>
               /\ NoExternalEffect]_vars

C2_Witness ==
    \E r \in Runs :
        /\ pc[r] = "done"
        /\ Status(r) = "ignored"
        /\ Reason(r) = Some("Row ID invalid/Webhook test successful, your pick.")
        /\ Logged(r, "Webhook test payload (ID 0) received and ignored.")
        /\ calls[r] = <<>>

\* C3: a "rows.created" payload whose items array is empty or missing ends the
\* run without any external call; every row and the folders stay as they were.
C3_NoItemsNoEffect ==
    [][\A r \in Runs, p \in ObjectPayloads :
          (/\ Takes(r)
           /\ p.event_type = Some("rows.created")
           /\ ~HasFirstItem(p)
           /\ Deliver(r, p))
            => /\ pc'[r] = "done"
               /\ calls'[r] = <<>>
               /\ NoExternalEffect]_vars

C3_Witness ==
    \E r \in Runs :
        /\ pc[r] = "done"
        /\ Logged(r, "Webhook payload contained no items.")
        /\ calls[r] = <<>>
        /\ folders = <<>>

\* C4 as claimed: a "rows.created" payload with an empty items array gets an
\* ignored outcome (status "ignored").
C4_Claimed_NoItemsIgnored ==
    [][\A r \in Runs, p \in ObjectPayloads :
          (/\ Takes(r)
           /\ p.event_type = Some("rows.created")
           /\ p.items = Some(<<>>)
           /\ Deliver(r, p))
            => /\ response'[r] # None
               /\ response'[r][1].body.status = "ignored"]_vars

\* C4: a "rows.created" payload with an empty items array gets an error
\* outcome: {"status": "error", "reason": "No items in payload"}.
C4_NoItemsIsError ==
    [][\A r \in Runs, p \in ObjectPayloads :
          (/\ Takes(r)
           /\ p.event_type = Some("rows.created")
           /\ p.items = Some(<<>>)
           /\ Deliver(r, p))
            => /\ response'[r] # None
               /\ response'[r][1].body.status = "error"
               /\ response'[r][1].body.reason = Some("No items in payload")]_vars

C4_Witness ==
    \E r \in Runs :
        /\ pc[r] = "done"
        /\ Logged(r, "Webhook payload contained no items.")
        /\ Status(r) = "error"
        /\ Reason(r) = Some("No items in payload")

\* C5: every delivery the handler has finished with was answered with HTTP 200
\* and a status of "success", "ignored" or "error"; a run that has not
\* answered is idle or blocked in one of the three external calls.
C5_AlwaysAnswers200 ==
    \A r \in Runs :
        /\ pc[r] \in {"idle", "files.create", "permissions.create", "requests.patch",
                      "done"}
        /\ (pc[r] = "done") <=> (response[r] # None)
        /\ response[r] # None =>
              /\ response[r][1].code = 200
              /\ Status(r) \in {"success", "ignored", "error"}

\* An unparsable body, and a failed call, were both answered with status "error".
C5_Witness ==
    /\ \E r \in Runs :
          /\ pc[r] = "done" /\ calls[r] = <<>>
          /\ response[r][1].code = 200
          /\ Status(r) = "error" /\ Reason(r) = Some("400 Bad Request")
    /\ \E r \in Runs :
          /\ pc[r] = "done" /\ calls[r] # <<>>
          /\ ~calls[r][Len(calls[r])].ok
          /\ response[r][1].code = 200
          /\ Status(r) = "error"

\* The call run r issues in this step, if it issues one.
Issues(r, api) ==
    /\ Len(calls'[r]) = Len(calls[r]) + 1
    /\ calls'[r][Len(calls'[r])].api = api
Issued(r) == calls'[r][Len(calls'[r])]

\* The rows named by the table_id and the id run r took from its payload.
Target(r) ==
    {k \in RowKeys : Some(k[1]) = frame[r].table_id /\ Some(k[2]) = frame[r].row_id}

\* C6: a run answered "success" sent a patch of exactly two fields:
\* "Google Drive Link", the webViewLink its own files.create call returned, and
\* "Profile", "{API_ENDPOINT}/student-details/{row_id}" for its row id.
C6_PatchCarriesBothLinks ==
    \A r \in Runs :
        (response[r] # None /\ Status(r) = "success") =>
            /\ Len(calls[r]) >= 2
            /\ LET create == calls[r][1]
                   patch == calls[r][Len(calls[r])]
               IN  /\ create.api = "files.create" /\ create.ok
                   /\ patch.api = "requests.patch" /\ patch.ok
                   /\ DOMAIN patch.args.json = {"Google Drive Link", "Profile"}
                   /\ patch.args.json["Google Drive Link"] = create.result.webViewLink
                   /\ frame[r].row_id # None
                   /\ patch.args.json["Profile"] =
                          Some(<<API_ENDPOINT, "/student-details/",
                                 DecStr(frame[r].row_id[1])>>)

C6_Witness ==
    \E r \in Runs :
        /\ pc[r] = "done"
        /\ Status(r) = "success"
        /\ frame[r].row_id = Some(2)
        /\ calls[r][3].args.json["Profile"] =
               Some(<<"https://localhost:8000", "/student-details/", "2">>)
        /\ calls[r][3].args.json["Google Drive Link"] = Some(folders[1].webViewLink)

\* C7: in the calls of one run a record patch comes only after a successful
\* permission grant of that run, and a permission grant only after a
\* successful folder creation of that run.
C7_CallOrder ==
    \A r \in Runs : \A i \in 1..Len(calls[r]) :
        /\ calls[r][i].api = "requests.patch" =>
              \E j \in 1..(i - 1) :
                  calls[r][j].api = "permissions.create" /\ calls[r][j].ok
        /\ calls[r][i].api = "permissions.create" =>
              \E j \in 1..(i - 1) :
                  calls[r][j].api = "files.create" /\ calls[r][j].ok

C7_Witness ==
    \E r \in Runs :
        /\ Len(calls[r]) = 3
        /\ calls[r][1].api = "files.create" /\ calls[r][1].ok
        /\ calls[r][2].api = "permissions.create" /\ calls[r][2].ok
        /\ calls[r][3].api = "requests.patch" /\ calls[r][3].ok

\* C8: a run whose folder creation Drive rejected has ended with status
\* "error" and has issued no other call: no permission grant, no record patch.
C8_RejectedCreationStops ==
    \A r \in Runs :
        (/\ calls[r] # <<>>
         /\ calls[r][1].api = "files.create"
         /\ ~calls[r][1].ok)
          => /\ pc[r] = "done"
             /\ Status(r) = "error"
             /\ {i \in 1..Len(calls[r]) :
                    calls[r][i].api \in {"permissions.create", "requests.patch"}} = {}
             /\ Len(calls[r]) = 1

C8_Witness ==
    \E r \in Runs :
        /\ pc[r] = "done"
        /\ calls[r] # <<>>
        /\ ~calls[r][1].ok
        /\ calls[r][1].api = "files.create"
        /\ Status(r) = "error"
        /\ \A k \in RowKeys : rows[k]["Google Drive Link"] = None

\* C9: whatever the interleaving, a run keeps the table_id and the first
\* item's id of the payload it took; every patch it sends names no row but
\* that one and carries the link of the folder the run itself created; and
\* no row changes except the one named, by a patch that succeeded.
C9_PatchesOwnRowOnly ==
    [][\A r \in Runs :
          /\ \A p \in ObjectPayloads :
                (Takes(r) /\ pc'[r] # "done" /\ Deliver(r, p))
                  => /\ HasFirstItem(p)
                     /\ frame'[r].row_id = FirstItem(p).id
                     /\ frame'[r].table_id = p.table_id
          /\ pc[r] # "idle"
                => /\ frame'[r].row_id = frame[r].row_id
                   /\ frame'[r].table_id = frame[r].table_id
          /\ Issues(r, "requests.patch")
                => /\ Resolve(Issued(r).args.url) \subseteq Target(r)
                   /\ calls[r] # <<>>
                   /\ calls[r][1].api = "files.create"
                   /\ calls[r][1].ok
                   /\ Issued(r).args.json["Google Drive Link"] =
                          calls[r][1].result.webViewLink
                   /\ \A k \in RowKeys : rows'[k] # rows[k] => k \in Target(r)
                   /\ Issued(r).ok =>
                         \A k \in Target(r) :
                             rows'[k]["Google Drive Link"] =
                                 calls[r][1].result.webViewLink
          /\ rows' # rows
                => \E q \in Runs : Issues(q, "requests.patch") /\ Issued(q).ok]_vars

\* Two runs for different rows have each written their own folder's link to
\* their own row, and the other rows are untouched.
C9_Witness ==
    \E a, b \in Runs :
        /\ pc[a] = "done" /\ Status(a) = "success"
        /\ pc[b] = "done" /\ Status(b) = "success"
        /\ Target(a) = {<<7, 1>>}
        /\ Target(b) = {<<8, 2>>}
        /\ rows[<<7, 1>>]["Google Drive Link"] = frame[a].folder_link
        /\ rows[<<8, 2>>]["Google Drive Link"] = frame[b].folder_link
        /\ frame[a].folder_link # frame[b].folder_link
        /\ rows[<<7, 2>>]["Google Drive Link"] = None
        /\ rows[<<8, 1>>]["Google Drive Link"] = None

\* C10: deliveries are not deduplicated or coordinated.  A creation event
\* for a row with an id other than 0 goes on to folder creation whatever the
\* other runs and the rows hold; every run that gets past folder creation has
\* created a folder of its own; and a patch that succeeds overwrites the row's
\* "Google Drive Link" with the link of the patching run.
C10_LastPatchWins ==
    [][\A r \in Runs :
          /\ \A p \in ObjectPayloads :
                (/\ Takes(r)
                 /\ p.event_type = Some("rows.created")
                 /\ HasFirstItem(p)
                 /\ FirstItem(p).id # Some(0)
                 /\ Deliver(r, p))
                  => pc'[r] = "files.create"
          /\ (pc[r] = "files.create" /\ pc'[r] \notin {"files.create", "done"})
                => /\ Len(folders') = Len(folders) + 1
                   /\ frame'[r].folder_id = Some(folders'[Len(folders')].id)
                   /\ frame'[r].folder_link = Some(folders'[Len(folders')].webViewLink)
                   /\ \A i \in 1..Len(folders) :
                         /\ folders[i].id # folders'[Len(folders')].id
                         /\ folders[i].webViewLink # folders'[Len(folders')].webViewLink
          /\ (Issues(r, "requests.patch") /\ Issued(r).ok)
                => /\ Target(r) # {}
                   /\ \A k \in Target(r) :
                         rows'[k]["Google Drive Link"] = frame[r].folder_link]_vars

\* Two runs for the same row both succeeded; the row holds the link of the
\* folder created first, because that run's patch was applied last.
C10_Witness ==
    \E a, b \in Runs :
        /\ a # b
        /\ pc[a] = "done" /\ Status(a) = "success"
        /\ pc[b] = "done" /\ Status(b) = "success"
        /\ Target(a) = Target(b)
        /\ Len(folders) = 2
        /\ frame[a].folder_id = Some(folders[1].id)
        /\ frame[b].folder_id = Some(folders[2].id)
        /\ \A k \in Target(a) :
              /\ rows[k]["Google Drive Link"] = Some(folders[1].webViewLink)
              /\ rows[k]["Google Drive Link"] # Some(folders[2].webViewLink)

\* C11 as claimed: a fetch answered with any status but 200 gives 404 without
\* the template being read or a document compiled, and a fetch answered 200
\* gives 200 with content type application/pdf.
C11_Claimed_FetchedIsPdf ==
    (render # None /\ render[1].status_code # None) =>
        /\ render[1].status_code # Some(200) =>
              /\ render[1].code = 404
              /\ ~render[1].template_read
              /\ ~render[1].compiled
        /\ render[1].status_code = Some(200) =>
              /\ render[1].code = 200
              /\ render[1].mimetype = Some("application/pdf")

\* C11: a fetch answered with any status but 200 gives 404 without the
\* template being read or a document compiled; a fetch answered 200 gives 200
\* with content type application/pdf when the template was read and the
\* document compiled, and 500 when either of them raised.
C11_FetchedIsPdfUnlessRenderRaises ==
    (render # None /\ render[1].status_code # None) =>
        /\ render[1].status_code # Some(200) =>
              /\ render[1].code = 404
              /\ ~render[1].template_read
              /\ ~render[1].compiled
        /\ render[1].status_code = Some(200) =>
              /\ render[1].code \in {200, 500}
              /\ render[1].code = 200 <=>
                    (render[1].template_read /\ render[1].compiled)
              /\ render[1].code = 200 => render[1].mimetype = Some("application/pdf")

\* The store refused the GET of a row it has, and the view answered 404.
C11_Witness ==
    /\ render # None
    /\ render[1].status_code = Some(500)
    /\ Resolve(render[1].url) # {}
    /\ render[1].code = 404
    /\ ~render[1].template_read

\* The folder a run created, by the id files.create answered with.
OwnFolders(r) ==
    IF calls[r] # <<>> /\ calls[r][1].api = "files.create" /\ calls[r][1].ok
      THEN {i \in 1..Len(folders) : Some(folders[i].id) = calls[r][1].result.id}
      ELSE {}

\* C12: a run whose permission grant failed after its folder was created has
\* ended with status "error" and issued no patch and no other call; its folder
\* is still there, without any permission.
C12_FailedGrantLeavesFolder ==
    \A r \in Runs :
        (/\ Len(calls[r]) >= 2
         /\ calls[r][1].api = "files.create" /\ calls[r][1].ok
         /\ calls[r][2].api = "permissions.create" /\ ~calls[r][2].ok)
          => /\ pc[r] = "done"
             /\ Status(r) = "error"
             /\ Len(calls[r]) = 2
             /\ OwnFolders(r) # {}
             /\ \A i \in OwnFolders(r) : folders[i].permissions = <<>>

C12_Witness ==
    \E r \in Runs :
        /\ pc[r] = "done"
        /\ Len(calls[r]) = 2
        /\ calls[r][2].api = "permissions.create" /\ ~calls[r][2].ok
        /\ Status(r) = "error"
        /\ Len(folders) = 1
        /\ folders[1].name = frame[r].folder_name
        /\ folders[1].permissions = <<>>

\* C13: a patch the store refused ends the run with status "error", in the
\* same step and without changing a row or a folder; afterwards the run has
\* issued nothing but its three calls and its folder still has its permission.
C13_RefusedPatchIsError ==
    /\ [][\A r \in Runs :
             (Issues(r, "requests.patch") /\ ~Issued(r).ok)
               => /\ pc'[r] = "done"
                  /\ response'[r] # None
                  /\ response'[r][1].body.status = "error"
                  /\ rows' = rows
                  /\ folders' = folders]_vars
    /\ [](\A r \in Runs :
             (/\ calls[r] # <<>>
              /\ calls[r][Len(calls[r])].api = "requests.patch"
              /\ ~calls[r][Len(calls[r])].ok)
               => /\ pc[r] = "done"
                  /\ Status(r) = "error"
                  /\ Len(calls[r]) = 3
                  /\ OwnFolders(r) # {}
                  /\ \A i \in OwnFolders(r) :
                        folders[i].permissions = <<permission_metadata>>)

C13_Witness ==
    \E r \in Runs :
        /\ pc[r] = "done"
        /\ Len(calls[r]) = 3
        /\ calls[r][3].api = "requests.patch" /\ ~calls[r][3].ok
        /\ Status(r) = "error"
        /\ Logged(r, "Baserow Update Failed! Status: ")
        /\ \A k \in RowKeys : rows[k]["Google Drive Link"] = None
        /\ \A i \in OwnFolders(r) : folders[i].permissions = <<permission_metadata>>

\* The three external calls, in the order the handler issues them.
Stages == <<"files.create", "permissions.create", "requests.patch">>

\* A run that accepted its event: it went past the filters to the first call.
Accepted(r) == pc[r] \in {Stages[i] : i \in 1..3} \/ calls[r] # <<>>

\* How many external calls an accepted run may still issue.
Remaining(p) ==
    CASE p = "files.create" -> 3
      [] p = "permissions.create" -> 2
      [] p = "requests.patch" -> 1
      [] OTHER -> 0

\* C14: an accepted run ends in exactly one outcome: each of its steps issues
\* at most one call and brings it nearer to the end, so it has ended after at most
\* three steps, and its answer never changes afterwards; the answer is
\* "success" with link_added true or "error", and it is "success" if and only
\* if files.create, permissions.create and requests.patch were all issued and
\* all succeeded; no call is issued twice by one run.
C14_OneOutcomeSuccessIffAllThree ==
    /\ [][\A r \in Runs :
             /\ (Accepted(r) /\ pc[r] # "done" /\ (pc'[r] # pc[r] \/ calls'[r] # calls[r]))
                  => /\ Len(calls'[r]) \in {Len(calls[r]), Len(calls[r]) + 1}
                     /\ Remaining(pc'[r]) < Remaining(pc[r])
                     /\ (response'[r] # None) <=> (pc'[r] = "done")
             /\ pc[r] = "done"
                  => /\ pc'[r] = "done"
                     /\ response'[r] = response[r]
                     /\ calls'[r] = calls[r]]_vars
    /\ [](\A r \in Runs :
             /\ Accepted(r) =>
                  /\ Len(calls[r]) + Remaining(pc[r]) <= 3
                  /\ \A i \in 1..Len(calls[r]) : calls[r][i].api = Stages[i]
                  /\ (pc[r] = "done") <=> (response[r] # None)
             /\ (Accepted(r) /\ pc[r] = "done") =>
                  /\ Status(r) \in {"success", "error"}
                  /\ Status(r) = "success" <=>
                        /\ Len(calls[r]) = 3
                        /\ \A i \in 1..3 : calls[r][i].ok
                  /\ Status(r) = "success" <=>
                        response[r][1].body.link_added = Some(TRUE))

\* Both outcomes happen: one run completed, another ended in error.
C14_Witness ==
    \E r, q \in Runs :
        /\ pc[r] = "done" /\ Accepted(r) /\ Status(r) = "success"
        /\ Len(calls[r]) = 3
        /\ pc[q] = "done" /\ Accepted(q) /\ Status(q) = "error"
        /\ ~calls[q][Len(calls[q])].ok

\* The payload with nothing but the first element in its items array.
FirstOnly(p) == [p EXCEPT !.items = Some(<<FirstItem(p)>>)]

\* C15: a delivery with several items is handled exactly as the delivery of
\* its first item alone: the step that takes it leaves the state the
\* one-item payload leaves.  From then on the run keeps the record it took,
\* issues each of the three calls at most once, and each call it issues is for
\* that record: the folder is named after it, the grant is for the run's own
\* folder and the patch names no row but the record's.
C15_OnlyFirstItem ==
    [][\A r \in Runs :
          /\ \A p \in SeveralPayloads :
                (Takes(r) /\ Deliver(r, p)) => Deliver(r, FirstOnly(p))
          /\ pc[r] # "idle"
                => /\ frame'[r].row_id = frame[r].row_id
                   /\ frame'[r].student_name = frame[r].student_name
                   /\ frame'[r].table_id = frame[r].table_id
          /\ \A api \in {Stages[i] : i \in 1..3} :
                Issues(r, api) =>
                   \A i \in 1..Len(calls[r]) : calls[r][i].api # api
          /\ Issues(r, "files.create")
                => Issued(r).args.name =
                       FolderName(frame[r].row_id, frame[r].student_name)
          /\ Issues(r, "permissions.create")
                => /\ calls[r][1].api = "files.create" /\ calls[r][1].ok
                   /\ Issued(r).args.fileId = calls[r][1].result.id
          /\ Issues(r, "requests.patch")
                => Resolve(Issued(r).args.url) \subseteq Target(r)]_vars

\* A delivery of several items completed for its first item, record 1: there
\* is one folder, named after record 1, and no row with another id is patched.
C15_Witness ==
    \E r \in Runs :
        /\ pc[r] = "done" /\ Status(r) = "success"
        /\ frame[r].row_id = Some(1)
        /\ Len(calls[r]) = 3
        /\ Len(folders) = 1
        /\ folders[1].name = <<"1", " - ", "Ada">>
        /\ \A k \in RowKeys : k[2] # 1 => rows[k]["Google Drive Link"] = None

\* C16: an accepted event's folder is created with the name
\* "{id} - {Full Name}" of the first item ("Unknown" for a missing name), and
\* an answer of status "success" carries exactly the name the folder was
\* created with.
C16_FolderNamedAfterRecord ==
    /\ [][\A r \in Runs : \A p \in ObjectPayloads :
             (Takes(r) /\ pc'[r] = "files.create" /\ Deliver(r, p))
               => /\ frame'[r].row_id = FirstItem(p).id
                  /\ frame'[r].student_name = Get(FirstItem(p).name, "Unknown")]_vars
    /\ [](\A r \in Runs :
             /\ calls[r] # <<>> =>
                  /\ calls[r][1].api = "files.create"
                  /\ calls[r][1].args.name =
                        <<DecStr(frame[r].row_id[1]), " - ", frame[r].student_name>>
                  /\ \A i \in OwnFolders(r) : folders[i].name = calls[r][1].args.name
             /\ (pc[r] = "done" /\ Status(r) = "success") =>
                  /\ calls[r] # <<>>
                  /\ response[r][1].body.folder_name = calls[r][1].args.name)

\* Record 2 has no "Full Name": its folder and the answer are "2 - Unknown".
C16_Witness ==
    \E r \in Runs :
        /\ pc[r] = "done" /\ Status(r) = "success"
        /\ frame[r].row_id = Some(2)
        /\ response[r][1].body.folder_name = <<"2", " - ", "Unknown">>
        /\ \E i \in OwnFolders(r) : folders[i].name = <<"2", " - ", "Unknown">>

\* C17: every folder has at most one permission, the public-read one; a run
\* issues permissions.create only as its second call, right after its own
\* successful files.create and for the folder that call created; and no step
\* removes a folder or a permission: folders and permissions only grow.
C17_OneGrantRightAfterCreation ==
    /\ [][/\ \A r \in Runs :
                Issues(r, "permissions.create")
                  => /\ Len(calls[r]) = 1
                     /\ calls[r][1].api = "files.create" /\ calls[r][1].ok
                     /\ Issued(r).args.fileId = calls[r][1].result.id
                     /\ Issued(r).args.body = permission_metadata
                     /\ \A i \in 1..Len(folders) :
                           folders'[i].permissions # folders[i].permissions
                             => (i \in OwnFolders(r) /\ Issued(r).ok)
          /\ Len(folders') >= Len(folders)
          /\ \A i \in 1..Len(folders) :
                /\ folders'[i].id = folders[i].id
                /\ Len(folders'[i].permissions) >= Len(folders[i].permissions)
                /\ SubSeq(folders'[i].permissions, 1, Len(folders[i].permissions))
                      = folders[i].permissions
                /\ folders'[i].permissions # folders[i].permissions
                      => \E r \in Runs : Issues(r, "permissions.create")]_vars
    /\ [](\A i \in 1..Len(folders) :
             /\ Len(folders[i].permissions) <= 1
             /\ \A j \in 1..Len(folders[i].permissions) :
                   folders[i].permissions[j] = permission_metadata
             /\ folders[i].permissions # <<>> =>
                   \E r \in Runs :
                       /\ i \in OwnFolders(r)
                       /\ Len(calls[r]) >= 2
                       /\ calls[r][2].api = "permissions.create" /\ calls[r][2].ok)

\* Two runs interleaved their calls; each folder has the one grant of the run
\* that created it.
C17_Witness ==
    /\ Len(folders) = 2
    /\ \A i \in 1..2 : folders[i].permissions = <<permission_metadata>>
    /\ \A r \in Runs :
          /\ Len(calls[r]) >= 2
          /\ calls[r][2].api = "permissions.create" /\ calls[r][2].ok
    /\ OwnFolders(1) = {1} /\ OwnFolders(2) = {2}

\* The keys of a JSON answer, and the stage names of the specification.
Keys(body) == {k \in DOMAIN body : k = "status" \/ body[k] # <<>>}
StageLabels == <<"folder_creation", "permission_grant", "record_update">>

\* A run that ended because its last external call failed.
FailedAtCall(r) ==
    /\ pc[r] = "done"
    /\ calls[r] # <<>>
    /\ ~calls[r][Len(calls[r])].ok

LastLine(r) == log[r][Len(log[r])]

\* C18 as claimed: the answer of a run that failed at a call names the stage:
\* "folder_creation" for files.create, "permission_grant" for
\* permissions.create, "record_update" for requests.patch.
C18_Claimed_StageNamed ==
    \A r \in Runs :
        FailedAtCall(r) =>
            /\ Status(r) = "error"
            /\ \/ "stage" \in Keys(response[r][1].body)
               \/ Reason(r) = Some(StageLabels[Len(calls[r])])

\* C18: the answer of a run that failed at a call has the keys "status" and
\* "reason" and no other, whatever the stage; the reason is the text of the
\* exception, the one logged last as "CRITICAL ERROR in webhook: ".  The
\* stage shows only in the log: the failed call is the first whose success
\* line is missing.
C18_ErrorCarriesCauseOnly ==
    \A r \in Runs :
        FailedAtCall(r) =>
            /\ Status(r) = "error"
            /\ Keys(response[r][1].body) = {"status", "reason"}
            /\ LastLine(r).level = "ERROR"
            /\ LastLine(r).msg = "CRITICAL ERROR in webhook: "
            /\ Len(LastLine(r).args) = 1
            /\ Len(LastLine(r).args[1]) = 1
            /\ Reason(r) = Some(LastLine(r).args[1][1])
            /\ Len(calls[r]) = 1 <=>
                  ~Logged(r, "Folder created successfully. Link: ")
            /\ Len(calls[r]) = 2 <=>
                  /\ Logged(r, "Folder created successfully. Link: ")
                  /\ ~Logged(r, "Permissions updated successfully.")
            /\ Len(calls[r]) = 3 <=>
                  Logged(r, "Permissions updated successfully.")

\* Three runs are not needed: one run failed at the grant, another at the
\* patch, and both answers have the same keys.
C18_Witness ==
    \E r, q \in Runs :
        /\ FailedAtCall(r) /\ Len(calls[r]) = 2
        /\ FailedAtCall(q) /\ Len(calls[q]) = 3
        /\ Keys(response[r][1].body) = Keys(response[q][1].body)
        /\ Reason(r) # Reason(q)

\* The text appears as a field of one of the log lines.
ValueLogged(lines, text) ==
    \E i \in 1..Len(lines) : \E j \in 1..Len(lines[i].args) : lines[i].args[j] = text

\* C19 as claimed: when requests.patch fails, the link of the folder and the
\* profile link it was sent are both in the run's log already.
C19_Claimed_BothLinksLogged ==
    [][\A r \in Runs :
          (Issues(r, "requests.patch") /\ ~Issued(r).ok)
            => /\ ValueLogged(log[r], Issued(r).args.json["Google Drive Link"][1])
               /\ ValueLogged(log[r], Issued(r).args.json["Profile"][1])]_vars

\* C19: when requests.patch is issued the run's log already holds the link
\* of the folder it is sent ("Folder created successfully. Link: ") and the
\* table and row it is sent to; the profile link is in no log line, neither
\* before the call nor after its failure.
C19_FolderLinkLoggedProfileLinkNot ==
    [][\A r \in Runs :
          Issues(r, "requests.patch")
            => /\ ValueLogged(log[r], Issued(r).args.json["Google Drive Link"][1])
               /\ ValueLogged(log[r], <<PyStr(frame[r].row_id)>>)
               /\ ValueLogged(log[r], <<PyStr(frame[r].table_id)>>)
               /\ Logged(r, "Attempting to update Baserow table, row ")
               /\ ~ValueLogged(log'[r], Issued(r).args.json["Profile"][1])
               /\ ~Issued(r).ok =>
                     /\ Len(log'[r]) = Len(log[r]) + 2
                     /\ log'[r][Len(log[r]) + 1].msg = "Baserow Update Failed! Status: "
                     /\ log'[r][Len(log[r]) + 2].msg = "CRITICAL ERROR in webhook: "]_vars

\* A refused patch: the folder's link is in the log, the profile link is not.
C19_Witness ==
    \E r \in Runs :
        /\ FailedAtCall(r) /\ Len(calls[r]) = 3
        /\ ValueLogged(log[r], calls[r][3].args.json["Google Drive Link"][1])
        /\ ~ValueLogged(log[r], calls[r][3].args.json["Profile"][1])
        /\ calls[r][3].args.json["Profile"] = Some(ProfileLink(frame[r].row_id))

\* GET of the link leads to the render view for this student id.
Follows(link, student_id) ==
    link = <<API_ENDPOINT, "/student-details/", DecStr(student_id)>>

\* C20: a creation event is accepted whatever its table_id, and its patch
\* goes to the row of the payload's table, with a "Profile" link that names
\* the row id only; the render view fetches the row of the configured
\* TABLE_ID with the id of its URL.  So the view reached through the
\* "Profile" link of a row fetches the row with that id in table TABLE_ID,
\* which is the row holding the link only if that row is in table TABLE_ID.
C20_ProfileLinkIgnoresTable ==
    /\ [][\A r \in Runs :
             /\ \A p \in ObjectPayloads :
                   (/\ Takes(r)
                    /\ p.event_type = Some("rows.created")
                    /\ HasFirstItem(p)
                    /\ FirstItem(p).id # Some(0)
                    /\ Deliver(r, p))
                     => /\ pc'[r] = "files.create"
                        /\ frame'[r].table_id = p.table_id
             /\ Issues(r, "requests.patch")
                   => /\ Resolve(Issued(r).args.url) = Target(r)
                      /\ Issued(r).args.json["Profile"] # None
                      /\ \A id \in StudentIds :
                            Follows(Issued(r).args.json["Profile"][1], id)
                              <=> Some(id) = frame[r].row_id]_vars
    /\ [](render # None =>
             /\ Resolve(render[1].url) \subseteq {<<TABLE_ID, render[1].student_id>>}
             /\ render[1].student_data # None =>
                   \E k \in Resolve(render[1].url) :
                       render[1].student_data[1]["Full Name"] = rows[k]["Full Name"]
             /\ \A k \in RowKeys :
                   (/\ rows[k]["Profile"] # None
                    /\ Follows(rows[k]["Profile"][1], render[1].student_id))
                     => /\ k[2] = render[1].student_id
                        /\ Resolve(render[1].url) = {<<TABLE_ID, k[2]>>}
                        /\ (k \in Resolve(render[1].url)) <=> (k[1] = TABLE_ID))

\* Row 2 of table 8 got its links; the view its "Profile" link leads to
\* rendered row 2 of table 7, which has no links.
C20_Witness ==
    /\ render # None
    /\ rows[<<8, 2>>]["Profile"] # None
    /\ rows[<<8, 2>>]["Google Drive Link"] # None
    /\ Follows(rows[<<8, 2>>]["Profile"][1], render[1].student_id)
    /\ render[1].code = 200
    /\ render[1].url = fetch_url(2)
    /\ render[1].student_data = Some(rows[<<7, 2>>])
    /\ rows[<<7, 2>>]["Profile"] = None

====
